---- MODULE Spec2Model ----
(***************************************************************************)
(* State-machine model of the stash registry contract (src/src/lib.rs).    *)
(*                                                                         *)
(* The contract is a NEAR contract: every public method of the             *)
(* #[near_bindgen] impl runs as one function call that either returns, and *)
(* then its writes and its promise are committed, or panics, and then the  *)
(* runtime discards every write and every promise of the call.  A method   *)
(* without #[payable] is rejected at entry when a deposit is attached.     *)
(*                                                                         *)
(* `stashes` is a std HashMap field of the contract struct: it lives in    *)
(* memory during a call and is serialised under the root key only after    *)
(* the method has returned, so env::storage_usage() read inside a method   *)
(* sees the writes of the near_sdk collections (accounts, and the sets     *)
(* under the prefix "s") and nothing of `stashes`.                         *)
(*                                                                         *)
(* The modules stash and token_vault are declared in lib.rs (mod stash,   *)
(* mod token_vault); the operators Stash_* and Vault_new model them from   *)
(* the specification's data model and component design.                    *)
(***************************************************************************)
EXTENDS FiniteSets, Integers, Sequences, TLC

VARIABLES
  state_exists,  \* whether the contract's state has been written (env::state_exists)
  stashes,       \* Contract.stashes: stash id -> Stash, the live stashes
  accounts,      \* Contract.accounts: account -> the handle of its set of ids
  storage,       \* the records under the sets' storage prefix
  promises,      \* the number of scheduled transfers not yet executed
  creator,       \* history: the account whose create_stash made each live stash
  allocated,     \* history: the ids create_stash has handed out
  pre,           \* history: the registry as it was before the last call
  lastCall,      \* history: the last call and how it ended
  roundTrip      \* history: see RoundTrip

vars == <<state_exists, stashes, accounts, storage, promises,
          creator, allocated, pre, lastCall, roundTrip>>

(***************************************************************************)
(* Bounds and scaled quantities.                                           *)
(***************************************************************************)
\* Most stashes alive at once (create_stash is not offered beyond it).
MaxStashes == 2
\* Most refund transfers in flight at once.
MaxPromises == 1
\* Largest vault balance: stands for u128::MAX, balances are modulo u128_MAX + 1.
u128_MAX == 2
\* Price of one byte of storage, stands for env::storage_byte_cost().
storage_byte_cost == 2

Accounts == {"alice", "bob"}
Tokens == {"usdc"}
Names == {"Roommates"}
Amounts == {1, u128_MAX}
\* The accounts authorize_contributor is called for.
Contributors == {"bob"}

\* Borsh length of an account id: a u32 length prefix and the bytes.
AccountIdBytes(a) == 4 + (IF a = "alice" THEN 5 ELSE 3)

\* Bytes of one record of an UnorderedSet<u64>, "si" ++ element -> index or
\* "se" ++ index -> element: 40 bytes per record, a 10 byte key, an 8 byte
\* value.  Overwriting a record with a value of the same length adds nothing.
SetRecordBytes == 58
\* Bytes of the three records UnorderedMap::insert writes for a new key, less
\* the two copies of the key: "ai" ++ key -> index, "ak" ++ index -> key,
\* "av" ++ index -> the set's handle (two prefixes and a length, 20 bytes).
MapEntryBytes == 170

\* The price of the two records of a new set element.
ElementDeposit == 2 * SetRecordBytes * storage_byte_cost

\* Attached deposits tried: none, the price of a new set element, and more
\* than any call costs.
Deposits == {0, ElementDeposit, 500 * storage_byte_cost}

\* The stash ids calls are made with: every id a stash can get.
StashIds == 0..(MaxStashes - 1)

\* The value of an id, a string or a balance that is not there.
NoId == 0 - 1
NoStr == "-"

(***************************************************************************)
(* Raw storage of the near_sdk collections.                                *)
(***************************************************************************)
storage_write(st, k, v) ==
  [x \in DOMAIN st \cup {k} |-> IF x = k THEN v ELSE st[x]]

map_insert(m, k, v) ==
  [x \in DOMAIN m \cup {k} |-> IF x = k THEN v ELSE m[x]]

map_remove(m, k) == [x \in DOMAIN m \ {k} |-> m[x]]

RECURSIVE SumAccountBytes(_)
SumAccountBytes(S) ==
  IF S = {} THEN 0
  ELSE LET a == CHOOSE x \in S : TRUE
       IN MapEntryBytes + 2 * AccountIdBytes(a) + SumAccountBytes(S \ {a})

\* env::storage_usage() as the methods read it: the records of `accounts`
\* and the records under the sets' prefix.
storage_usage(accts, st) ==
  SumAccountBytes(DOMAIN accts) + SetRecordBytes * Cardinality(DOMAIN st)

\* UnorderedSet::new(b"s"): the handle every account's set is built with.
\* The handle holds the prefix and the length; the elements live in storage
\* under the prefix.
UnorderedSet_new(prefix) == [prefix |-> prefix, len |-> 0]

\* UnorderedSet::insert: an element whose index record exists is not added;
\* otherwise its index record is written and it is pushed at position len.
UnorderedSet_insert(set, st, element) ==
  IF <<set.prefix, "i", element>> \in DOMAIN st
  THEN [set |-> set, storage |-> st, inserted |-> FALSE]
  ELSE LET st1 == storage_write(st, <<set.prefix, "i", element>>, set.len)
           st2 == storage_write(st1, <<set.prefix, "e", set.len>>, element)
       IN [set |-> [set EXCEPT !.len = set.len + 1],
           storage |-> st2, inserted |-> TRUE]

\* UnorderedSet::to_vec: the elements at positions 0 .. len-1 under the prefix.
UnorderedSet_to_vec(set, st) ==
  [i \in 1..set.len |-> st[<<set.prefix, "e", i - 1>>]]

Range(seq) == {seq[i] : i \in DOMAIN seq}

EmptyMap == [x \in {} |-> 0]

(***************************************************************************)
(* The stash module (crate::stash, crate::token_vault), modelled from the  *)
(* specification's data model and component design.                        *)
(***************************************************************************)
Vault_new == [balance |-> 0]

\* Stash::new(stash_id, name): an empty stash.
Stash_new(stash_id, name) ==
  [id |-> stash_id, name |-> name, vaults |-> EmptyMap,
   authorized_contributors |-> {}]

StashOk(stash) == [panicked |-> FALSE, err |-> "ok", stash |-> stash]
StashPanic(stash, err) == [panicked |-> TRUE, err |-> err, stash |-> stash]

\* Stash::add_vault: a zero-balance vault if the asset has none, else nothing.
Stash_add_vault(stash, token_id) ==
  IF token_id \in DOMAIN stash.vaults
  THEN StashOk(stash)
  ELSE StashOk([stash EXCEPT !.vaults = map_insert(@, token_id, Vault_new)])

\* Stash::add_liquidity: the vault is created if needed and its balance
\* grows by a checked addition.
Stash_add_liquidity(stash, token_id, amount) ==
  LET old == IF token_id \in DOMAIN stash.vaults
             THEN stash.vaults[token_id].balance ELSE 0
  IN IF old + amount > u128_MAX
     THEN StashPanic(stash, "ERR_OVERFLOW")
     ELSE StashOk([stash EXCEPT
            !.vaults = map_insert(@, token_id, [balance |-> old + amount])])

\* Stash::remove_liquidity: the balance is decremented without a bounds
\* check.  What a subtraction below zero does is fixed by the build: it
\* panics when overflow checks are compiled in and wraps otherwise.
Stash_remove_liquidity(stash, token_id, amount, checks) ==
  IF token_id \notin DOMAIN stash.vaults
  THEN StashPanic(stash, "ERR_VAULT_NOT_FOUND")
  ELSE LET old == stash.vaults[token_id].balance
       IN IF amount > old /\ checks
          THEN StashPanic(stash, "ERR_SUBTRACT_OVERFLOW")
          ELSE StashOk([stash EXCEPT
                 !.vaults = map_insert(@, token_id,
                    [balance |-> (old - amount) % (u128_MAX + 1)])])

\* Stash::authorize_contributor: the account joins the authorized set.
Stash_authorize_contributor(stash, account_id) ==
  StashOk([stash EXCEPT !.authorized_contributors = @ \cup {account_id}])

(***************************************************************************)
(* The contract's methods.  Each maps the registry before the call and the *)
(* call's inputs to an outcome: whether the method panicked, and the       *)
(* writes made up to that point.                                           *)
(***************************************************************************)
Registry(s, a, st) == [stashes |-> s, accounts |-> a, storage |-> st]

\* The balance of a stash's vault, 0 when the stash has no such vault.
BalanceOf(reg, stash_id, token_id) ==
  IF stash_id \in DOMAIN reg.stashes
     /\ token_id \in DOMAIN reg.stashes[stash_id].vaults
  THEN reg.stashes[stash_id].vaults[token_id].balance
  ELSE 0

\* Contract::new, the struct it returns.
new == Registry(EmptyMap, EmptyMap, EmptyMap)

\* Variant of internal_check_storage with a saturating subtraction in place
\* of the checked one: a deposit that is too small passes.
internal_check_storage_saturating(prev_storage, usage, attached_deposit, predecessor) ==
  LET storage_cost ==
        (IF usage >= prev_storage THEN usage - prev_storage ELSE 0)
          * storage_byte_cost
      refund == IF attached_deposit < storage_cost
                THEN 0 ELSE attached_deposit - storage_cost
  IN [panicked |-> FALSE, err |-> "ok", storage_cost |-> storage_cost,
      promises |-> IF refund # 0
                   THEN <<[receiver |-> predecessor, amount |-> refund]>>
                   ELSE <<>>]

\* Variant of internal_check_storage that transfers the whole deposit back
\* instead of the deposit less the cost.
internal_check_storage_refund_deposit(prev_storage, usage, attached_deposit, predecessor) ==
  LET storage_cost ==
        (IF usage >= prev_storage THEN usage - prev_storage ELSE 0)
          * storage_byte_cost
  IN IF attached_deposit < storage_cost
     THEN [panicked |-> TRUE, err |-> "ERR_STORAGE_DEPOSIT",
           storage_cost |-> storage_cost, promises |-> <<>>]
     ELSE [panicked |-> FALSE, err |-> "ok", storage_cost |-> storage_cost,
           promises |-> IF attached_deposit # 0
                        THEN <<[receiver |-> predecessor,
                                amount |-> attached_deposit]>>
                        ELSE <<>>]

\* Variant of internal_check_storage that reports a deposit that is too
\* small and returns, instead of panicking.
internal_check_storage_no_abort(prev_storage, usage, attached_deposit, predecessor) ==
  LET storage_cost ==
        (IF usage >= prev_storage THEN usage - prev_storage ELSE 0)
          * storage_byte_cost
      refund == attached_deposit - storage_cost
  IN [panicked |-> FALSE,
      err |-> IF refund < 0 THEN "ERR_STORAGE_DEPOSIT" ELSE "ok",
      storage_cost |-> storage_cost,
      promises |-> IF refund > 0
                   THEN <<[receiver |-> predecessor, amount |-> refund]>>
                   ELSE <<>>]

\* Variant of internal_check_storage that charges for the whole usage
\* instead of the bytes added since prev_storage.
internal_check_storage_total_usage(prev_storage, usage, attached_deposit, predecessor) ==
  LET storage_cost == usage * storage_byte_cost
  IN IF attached_deposit < storage_cost
     THEN [panicked |-> TRUE, err |-> "ERR_STORAGE_DEPOSIT",
           storage_cost |-> storage_cost, promises |-> <<>>]
     ELSE LET refund == attached_deposit - storage_cost
          IN [panicked |-> FALSE, err |-> "ok", storage_cost |-> storage_cost,
              promises |-> IF refund # 0
                           THEN <<[receiver |-> predecessor, amount |-> refund]>>
                           ELSE <<>>]

\* internal_check_storage: the cost of the bytes added since prev_storage
\* (none is charged for bytes freed), a panic when the deposit is smaller,
\* and a transfer of the rest to the caller unless the rest is zero.
internal_check_storage(prev_storage, usage, attached_deposit, predecessor) ==
  LET storage_cost ==
        (IF usage >= prev_storage THEN usage - prev_storage ELSE 0)
          * storage_byte_cost
  IN IF attached_deposit < storage_cost
     THEN [panicked |-> TRUE, err |-> "ERR_STORAGE_DEPOSIT",
           storage_cost |-> storage_cost, promises |-> <<>>]
     ELSE LET refund == attached_deposit - storage_cost
          IN [panicked |-> FALSE, err |-> "ok", storage_cost |-> storage_cost,
              promises |-> IF refund # 0
                           THEN <<[receiver |-> predecessor, amount |-> refund]>>
                           ELSE <<>>]

\* The outcome of a method that ran to its storage check.
Checked(chk, s, a, st, ret) ==
  [panicked |-> chk.panicked, err |-> chk.err, stashes |-> s, accounts |-> a,
   storage |-> st, storage_cost |-> chk.storage_cost,
   promises |-> chk.promises, ret |-> ret]

\* The outcome of a method that panicked before its storage check.
Panicked(reg, err) ==
  [panicked |-> TRUE, err |-> err, stashes |-> reg.stashes,
   accounts |-> reg.accounts, storage |-> reg.storage, storage_cost |-> 0,
   promises |-> <<>>, ret |-> NoId]

\* The outcome of a method that returned without a storage check.
Unchecked(reg) ==
  [panicked |-> FALSE, err |-> "ok", stashes |-> reg.stashes,
   accounts |-> reg.accounts, storage |-> reg.storage, storage_cost |-> 0,
   promises |-> <<>>, ret |-> NoId]

create_stash(reg, name, predecessor, attached_deposit) ==
  LET prev_storage == storage_usage(reg.accounts, reg.storage)
      stash_id == Cardinality(DOMAIN reg.stashes)
      stashes1 == map_insert(reg.stashes, stash_id, Stash_new(stash_id, name))
      set == IF predecessor \in DOMAIN reg.accounts
             THEN reg.accounts[predecessor] ELSE UnorderedSet_new("s")
      ins == UnorderedSet_insert(set, reg.storage, stash_id)
      accounts1 == map_insert(reg.accounts, predecessor, ins.set)
      chk == internal_check_storage(prev_storage,
               storage_usage(accounts1, ins.storage),
               attached_deposit, predecessor)
  IN Checked(chk, stashes1, accounts1, ins.storage, stash_id)

\* The outcome of a method whose stash operation returned: the stash is
\* changed in place and the storage check follows.
Stored(reg, stash_id, r, prev_storage, predecessor, attached_deposit) ==
  IF r.panicked
  THEN Panicked(reg, r.err)
  ELSE Checked(internal_check_storage(prev_storage,
                 storage_usage(reg.accounts, reg.storage),
                 attached_deposit, predecessor),
               map_insert(reg.stashes, stash_id, r.stash),
               reg.accounts, reg.storage, NoId)

\* Variant of add_token_to_stash that makes the stash when the id is not
\* live (entry().or_insert_with in place of get_mut().expect).
add_token_to_stash_or_insert(reg, stash_id, token_id, predecessor, attached_deposit) ==
  LET prev_storage == storage_usage(reg.accounts, reg.storage)
      stash == IF stash_id \in DOMAIN reg.stashes
               THEN reg.stashes[stash_id] ELSE Stash_new(stash_id, NoStr)
  IN Stored(reg, stash_id, Stash_add_vault(stash, token_id),
            prev_storage, predecessor, attached_deposit)

\* Variant of add_token_to_stash that stores a new vault whether or not the
\* stash has one for the asset (vaults.insert in place of add_vault).
add_token_to_stash_reset(reg, stash_id, token_id, predecessor, attached_deposit) ==
  LET prev_storage == storage_usage(reg.accounts, reg.storage)
  IN IF stash_id \notin DOMAIN reg.stashes
     THEN Panicked(reg, "ERR_STASH_NOT_FOUND")
     ELSE Stored(reg, stash_id,
                 StashOk([reg.stashes[stash_id] EXCEPT
                            !.vaults = map_insert(@, token_id, Vault_new)]),
                 prev_storage, predecessor, attached_deposit)

add_token_to_stash(reg, stash_id, token_id, predecessor, attached_deposit) ==
  LET prev_storage == storage_usage(reg.accounts, reg.storage)
  IN IF stash_id \notin DOMAIN reg.stashes
     THEN Panicked(reg, "ERR_STASH_NOT_FOUND")
     ELSE Stored(reg, stash_id,
                 Stash_add_vault(reg.stashes[stash_id], token_id),
                 prev_storage, predecessor, attached_deposit)

\* Variant of add_liquidity_to_stash that works on a copy of the stash
\* (get().cloned() in place of get_mut()): the deposit is not stored.
add_liquidity_to_stash_on_copy(reg, stash_id, token_id, amount, predecessor, attached_deposit) ==
  LET prev_storage == storage_usage(reg.accounts, reg.storage)
  IN IF stash_id \notin DOMAIN reg.stashes
     THEN Panicked(reg, "ERR_STASH_NOT_FOUND")
     ELSE LET r == Stash_add_liquidity(reg.stashes[stash_id], token_id, amount)
          IN Stored(reg, stash_id,
                    IF r.panicked THEN r ELSE StashOk(reg.stashes[stash_id]),
                    prev_storage, predecessor, attached_deposit)

\* Variant of add_liquidity_to_stash whose addition wraps (wrapping_add in
\* place of the checked addition).
add_liquidity_to_stash_wrapping(reg, stash_id, token_id, amount, predecessor, attached_deposit) ==
  LET prev_storage == storage_usage(reg.accounts, reg.storage)
  IN IF stash_id \notin DOMAIN reg.stashes
     THEN Panicked(reg, "ERR_STASH_NOT_FOUND")
     ELSE Stored(reg, stash_id,
                 StashOk([reg.stashes[stash_id] EXCEPT
                            !.vaults = map_insert(@, token_id,
                               [balance |-> (BalanceOf(reg, stash_id, token_id)
                                              + amount) % (u128_MAX + 1)])]),
                 prev_storage, predecessor, attached_deposit)

add_liquidity_to_stash(reg, stash_id, token_id, amount, predecessor, attached_deposit) ==
  LET prev_storage == storage_usage(reg.accounts, reg.storage)
  IN IF stash_id \notin DOMAIN reg.stashes
     THEN Panicked(reg, "ERR_STASH_NOT_FOUND")
     ELSE Stored(reg, stash_id,
                 Stash_add_liquidity(reg.stashes[stash_id], token_id, amount),
                 prev_storage, predecessor, attached_deposit)

remove_liquidity_from_stash(reg, stash_id, token_id, amount, checks, predecessor, attached_deposit) ==
  LET prev_storage == storage_usage(reg.accounts, reg.storage)
  IN IF stash_id \notin DOMAIN reg.stashes
     THEN Panicked(reg, "ERR_STASH_NOT_FOUND")
     ELSE Stored(reg, stash_id,
                 Stash_remove_liquidity(reg.stashes[stash_id], token_id,
                                        amount, checks),
                 prev_storage, predecessor, attached_deposit)

authorize_contributor(reg, stash_id, account_id, predecessor, attached_deposit) ==
  LET prev_storage == storage_usage(reg.accounts, reg.storage)
  IN IF stash_id \notin DOMAIN reg.stashes
     THEN Panicked(reg, "ERR_STASH_NOT_FOUND")
     ELSE Stored(reg, stash_id,
                 Stash_authorize_contributor(reg.stashes[stash_id], account_id),
                 prev_storage, predecessor, attached_deposit)

\* deposit_swap: a placeholder with an empty body.
deposit_swap(reg) == Unchecked(reg)

\* Variant of remove_stash that empties the map (HashMap::clear in place of
\* HashMap::remove): every live stash goes, not only the one named.
remove_stash_clear(reg, stash_id, predecessor, attached_deposit) ==
  LET prev_storage == storage_usage(reg.accounts, reg.storage)
  IN Checked(internal_check_storage(prev_storage,
               storage_usage(reg.accounts, reg.storage),
               attached_deposit, predecessor),
             EmptyMap, reg.accounts, reg.storage, NoId)

remove_stash(reg, stash_id, predecessor, attached_deposit) ==
  LET prev_storage == storage_usage(reg.accounts, reg.storage)
      stashes1 == map_remove(reg.stashes, stash_id)
  IN Checked(internal_check_storage(prev_storage,
               storage_usage(reg.accounts, reg.storage),
               attached_deposit, predecessor),
             stashes1, reg.accounts, reg.storage, NoId)

\* get_stashes_for_account: the caller's set, or a new empty one, as a vector.
get_stashes_for_account(accts, st, account_id) ==
  UnorderedSet_to_vec(IF account_id \in DOMAIN accts
                      THEN accts[account_id] ELSE UnorderedSet_new("s"), st)

(***************************************************************************)
(* Calls.  A call is one function-call receipt: the entry code generated   *)
(* by #[near_bindgen] rejects a deposit on a method that is not            *)
(* #[payable], runs the method, and the call's writes and promises take    *)
(* effect only when the method returned.                                   *)
(***************************************************************************)
payable(op) == op \in {"create_stash", "remove_stash"}

\* The deposits tried on a method: the entry code of a method that is not
\* payable only tells a deposit from none.
DepositsFor(op) ==
  IF payable(op) THEN Deposits ELSE {0, ElementDeposit}

\* The outcome of a call rejected at entry: the method does not run.
Rejected(reg) ==
  [panicked |-> TRUE, err |-> "ERR_DEPOSIT_NOT_ACCEPTED",
   stashes |-> reg.stashes, accounts |-> reg.accounts,
   storage |-> reg.storage, storage_cost |-> 0, promises |-> <<>>,
   ret |-> NoId]

\* Whether the entry code lets the method run.
Entered(op, attached_deposit) == payable(op) \/ attached_deposit = 0

\* The registry a call leaves behind: the method's writes when it returned,
\* the registry as it was when it panicked.
near_bindgen(reg, out) ==
  IF out.panicked
  THEN reg
  ELSE Registry(out.stashes, out.accounts, out.storage)

Current == Registry(stashes, accounts, storage)

\* The promises of a call that take effect: those of a call that returned.
Sent(out) == IF out.panicked THEN <<>> ELSE out.promises

NoBalance == 0 - 1

\* A call's inputs; an input the method does not take is NoId or NoStr.
Call(op, predecessor, attached_deposit, stash_id, token_id, amount, account_id, name) ==
  [op |-> op, predecessor |-> predecessor,
   attached_deposit |-> attached_deposit, stash_id |-> stash_id,
   token_id |-> token_id, amount |-> amount, account_id |-> account_id,
   name |-> name]

\* The record kept of a call: its inputs, whether the method ran, how it
\* ended, the cost the storage check computed, the promises it left and
\* the id it allocated.
Done(call, out) ==
  [op |-> call.op, predecessor |-> call.predecessor,
   attached_deposit |-> call.attached_deposit, stash_id |-> call.stash_id,
   token_id |-> call.token_id, amount |-> call.amount,
   account_id |-> call.account_id, name |-> call.name,
   entered |-> Entered(call.op, call.attached_deposit),
   result |-> out.err, storage_cost |-> out.storage_cost,
   promises |-> Sent(out), ret |-> out.ret]

\* No call has been made yet.
NoCall ==
  [op |-> "none", predecessor |-> NoStr, attached_deposit |-> 0,
   stash_id |-> NoId, token_id |-> NoStr, amount |-> 0,
   account_id |-> NoStr, name |-> NoStr, entered |-> FALSE,
   result |-> "none", storage_cost |-> 0, promises |-> <<>>, ret |-> NoId]

\* What a call does with the method's outcome.
Outcome(call, method) ==
  IF Entered(call.op, call.attached_deposit) THEN method ELSE Rejected(Current)

\* History of an add_liquidity_to_stash followed at once by a
\* remove_liquidity_from_stash of the same stash, asset and amount, both
\* returning: after the second call, the vault's balance before the first
\* (0 when the vault did not exist).  NoBalance after any other call.
RoundTrip(call, out) ==
  IF /\ lastCall.op = "add_liquidity_to_stash"
     /\ lastCall.result = "ok"
     /\ call.op = "remove_liquidity_from_stash"
     /\ ~out.panicked
     /\ call.stash_id = lastCall.stash_id
     /\ call.token_id = lastCall.token_id
     /\ call.amount = lastCall.amount
  THEN BalanceOf(pre, call.stash_id, call.token_id)
  ELSE NoBalance

\* One call: `method` is the method's outcome on the current registry.
Invoke(call, method) ==
  LET out == Outcome(call, method)
      post == near_bindgen(Current, out)
      sent == Sent(out)
  IN /\ state_exists
     /\ promises + Len(sent) <= MaxPromises
     /\ stashes' = post.stashes
     /\ accounts' = post.accounts
     /\ storage' = post.storage
     /\ promises' = promises + Len(sent)
     /\ pre' = Current
     /\ lastCall' = Done(call, out)
     /\ roundTrip' = RoundTrip(call, out)
     /\ UNCHANGED state_exists

Committed(call, method) == ~Outcome(call, method).panicked

(***************************************************************************)
(* Actions: one per method, and the execution of a scheduled transfer.     *)
(***************************************************************************)
Init ==
  /\ state_exists = FALSE
  /\ stashes = EmptyMap
  /\ accounts = EmptyMap
  /\ storage = EmptyMap
  /\ promises = 0
  /\ creator = EmptyMap
  /\ allocated = {}
  /\ pre = new
  /\ lastCall = NoCall
  /\ roundTrip = NoBalance

\* Variant of New without the test of env::state_exists() (the assert left
\* out under #[init(ignore_state)]): the registry new() returns replaces the
\* contract's state every time.
New_ignore_state ==
  \E predecessor \in Accounts, attached_deposit \in DepositsFor("new") :
    LET call == Call("new", predecessor, attached_deposit, NoId, NoStr, 0, NoStr, NoStr)
        out == Outcome(call, Unchecked(new))
        post == near_bindgen(Current, out)
    IN /\ pre' = Current
       /\ lastCall' = Done(call, out)
       /\ roundTrip' = NoBalance
       /\ state_exists' = (state_exists \/ ~out.panicked)
       /\ stashes' = post.stashes
       /\ accounts' = post.accounts
       /\ storage' = post.storage
       /\ UNCHANGED <<promises, creator, allocated>>

\* #[init] new(): panics when the contract's state exists; otherwise the
\* registry it returns becomes the contract's state.
New ==
  \E predecessor \in Accounts, attached_deposit \in DepositsFor("new") :
    LET call == Call("new", predecessor, attached_deposit, NoId, NoStr, 0, NoStr, NoStr)
        out == Outcome(call, IF state_exists
                             THEN Panicked(Current, "ERR_CONTRACT_IS_INITIALIZED")
                             ELSE Unchecked(new))
        post == near_bindgen(Current, out)
    IN /\ pre' = Current
       /\ lastCall' = Done(call, out)
       /\ roundTrip' = NoBalance
       /\ state_exists' = (state_exists \/ ~out.panicked)
       /\ stashes' = post.stashes
       /\ accounts' = post.accounts
       /\ storage' = post.storage
       /\ UNCHANGED <<promises, creator, allocated>>

CreateStash ==
  \E predecessor \in Accounts, attached_deposit \in DepositsFor("create_stash"), name \in Names :
    LET call == Call("create_stash", predecessor, attached_deposit, NoId, NoStr, 0, NoStr, name)
        method == create_stash(Current, name, predecessor, attached_deposit)
    IN /\ Cardinality(DOMAIN stashes) < MaxStashes
       /\ Invoke(call, method)
       /\ IF Committed(call, method)
          THEN /\ creator' = map_insert(creator, method.ret, predecessor)
               /\ allocated' = allocated \cup {method.ret}
          ELSE UNCHANGED <<creator, allocated>>

AddTokenToStash ==
  \E predecessor \in Accounts, attached_deposit \in DepositsFor("add_token_to_stash"),
     stash_id \in StashIds, token_id \in Tokens :
    LET call == Call("add_token_to_stash", predecessor, attached_deposit, stash_id, token_id, 0, NoStr, NoStr)
    IN /\ Invoke(call, add_token_to_stash(Current, stash_id, token_id, predecessor, attached_deposit))
       /\ UNCHANGED <<creator, allocated>>

DepositSwap ==
  \E predecessor \in Accounts, attached_deposit \in DepositsFor("deposit_swap") :
    LET call == Call("deposit_swap", predecessor, attached_deposit, NoId, NoStr, 0, NoStr, NoStr)
    IN /\ Invoke(call, deposit_swap(Current))
       /\ UNCHANGED <<creator, allocated>>

AddLiquidityToStash ==
  \E predecessor \in Accounts, attached_deposit \in DepositsFor("add_liquidity_to_stash"),
     stash_id \in StashIds, token_id \in Tokens, amount \in Amounts :
    LET call == Call("add_liquidity_to_stash", predecessor, attached_deposit, stash_id, token_id, amount, NoStr, NoStr)
    IN /\ Invoke(call, add_liquidity_to_stash(Current, stash_id, token_id, amount, predecessor, attached_deposit))
       /\ UNCHANGED <<creator, allocated>>

RemoveLiquidityFromStash ==
  \E predecessor \in Accounts, attached_deposit \in DepositsFor("remove_liquidity_from_stash"),
     stash_id \in StashIds, token_id \in Tokens, amount \in Amounts,
     overflow_checks \in BOOLEAN :
    LET call == Call("remove_liquidity_from_stash", predecessor, attached_deposit, stash_id, token_id, amount, NoStr, NoStr)
    IN /\ Invoke(call, remove_liquidity_from_stash(Current, stash_id, token_id, amount, overflow_checks, predecessor, attached_deposit))
       /\ UNCHANGED <<creator, allocated>>

AuthorizeContributor ==
  \E predecessor \in Accounts, attached_deposit \in DepositsFor("authorize_contributor"),
     stash_id \in StashIds, account_id \in Contributors :
    LET call == Call("authorize_contributor", predecessor, attached_deposit, stash_id, NoStr, 0, account_id, NoStr)
    IN /\ Invoke(call, authorize_contributor(Current, stash_id, account_id, predecessor, attached_deposit))
       /\ UNCHANGED <<creator, allocated>>

RemoveStash ==
  \E predecessor \in Accounts, attached_deposit \in DepositsFor("remove_stash"),
     stash_id \in StashIds :
    LET call == Call("remove_stash", predecessor, attached_deposit, stash_id, NoStr, 0, NoStr, NoStr)
        method == remove_stash(Current, stash_id, predecessor, attached_deposit)
    IN /\ Invoke(call, method)
       /\ creator' = IF Committed(call, method)
                     THEN map_remove(creator, stash_id) ELSE creator
       /\ UNCHANGED allocated

\* Variant of Transfer in which a transfer that fails undoes the call that
\* scheduled it (a callback restoring the registry of before the call).
Transfer_rollback ==
  /\ promises > 0
  /\ promises' = promises - 1
  /\ \E failed \in BOOLEAN :
       IF failed
       THEN /\ stashes' = pre.stashes
            /\ accounts' = pre.accounts
            /\ storage' = pre.storage
       ELSE UNCHANGED <<stashes, accounts, storage>>
  /\ UNCHANGED <<state_exists, creator, allocated, pre, lastCall, roundTrip>>

\* The refund transfer of an earlier call executes; whether it succeeds or
\* fails, the registry is not touched.
Transfer ==
  /\ promises > 0
  /\ promises' = promises - 1
  /\ UNCHANGED <<state_exists, stashes, accounts, storage,
                 creator, allocated, pre, lastCall, roundTrip>>

Next ==
  \/ New
  \/ CreateStash
  \/ AddTokenToStash
  \/ DepositSwap
  \/ AddLiquidityToStash
  \/ RemoveLiquidityFromStash
  \/ AuthorizeContributor
  \/ RemoveStash
  \/ Transfer

Spec == Init /\ [][Next]_vars

(***************************************************************************)
(* Vocabulary of the properties.                                           *)
(***************************************************************************)
\* The ids get_stashes_for_account returns for an account.
IndexOf(account_id) ==
  Range(get_stashes_for_account(accounts, storage, account_id))

\* The last call was `op` and its method returned.
Returned(op) == lastCall.op = op /\ lastCall.result = "ok"

\* The last call ended in an error.
Failed == lastCall.result \notin {"ok", "none"}

\* The methods the specification marks payable.
MeteredOps ==
  {"create_stash", "add_token_to_stash", "add_liquidity_to_stash",
   "remove_liquidity_from_stash", "authorize_contributor", "remove_stash"}

\* The methods that work on one existing stash.
StashOps ==
  {"add_token_to_stash", "add_liquidity_to_stash",
   "remove_liquidity_from_stash", "authorize_contributor"}

\* The last call's change is in the registry.
Applied ==
  CASE lastCall.op = "create_stash" ->
         /\ lastCall.ret \in DOMAIN stashes
         /\ stashes[lastCall.ret] = Stash_new(lastCall.ret, lastCall.name)
    [] lastCall.op = "add_token_to_stash" ->
         lastCall.token_id \in DOMAIN stashes[lastCall.stash_id].vaults
    [] lastCall.op = "add_liquidity_to_stash" ->
         BalanceOf(Current, lastCall.stash_id, lastCall.token_id)
           = BalanceOf(pre, lastCall.stash_id, lastCall.token_id) + lastCall.amount
    [] lastCall.op = "remove_liquidity_from_stash" ->
         BalanceOf(Current, lastCall.stash_id, lastCall.token_id)
           = (BalanceOf(pre, lastCall.stash_id, lastCall.token_id)
                - lastCall.amount) % (u128_MAX + 1)
    [] lastCall.op = "authorize_contributor" ->
         lastCall.account_id
           \in stashes[lastCall.stash_id].authorized_contributors
    [] lastCall.op = "remove_stash" ->
         lastCall.stash_id \notin DOMAIN stashes
    [] OTHER -> TRUE

(***************************************************************************)
(* Properties.                                                             *)
(***************************************************************************)

\* C1: a create_stash that returns leaves exactly one live stash more than
\* before, leaves every stash that was live as it was, and the caller's
\* index then contains the id it allocated.
C1_CreateAddsOneStash ==
  Returned("create_stash") =>
    /\ Cardinality(DOMAIN stashes) = Cardinality(DOMAIN pre.stashes) + 1
    /\ \A id \in DOMAIN pre.stashes :
         id \in DOMAIN stashes /\ stashes[id] = pre.stashes[id]
    /\ lastCall.ret \in IndexOf(lastCall.predecessor)

\* C2: the ids create_stash allocates start at 0, each is larger than every
\* id allocated before it, and none is allocated twice, whatever was
\* removed in between.
C2_IdsNeverReused ==
  [][(promises' >= promises
      /\ lastCall'.op = "create_stash" /\ lastCall'.result = "ok")
     => /\ lastCall'.ret \notin allocated
        /\ \A id \in allocated : id < lastCall'.ret
        /\ (allocated = {} => lastCall'.ret = 0)]_vars

\* C3: every id in any account's index set is the id of a live stash; so
\* after remove_stash(id) no account's index lists id.
C3_IndexConsistency ==
  \A account_id \in Accounts : IndexOf(account_id) \subseteq DOMAIN stashes

\* C4: a call of a metered method whose deposit is less than the price of
\* the bytes it added fails with ERR_STORAGE_DEPOSIT and leaves the
\* registry as it was before the call.
C4_AtomicCostGate ==
  (lastCall.op \in MeteredOps /\ lastCall.entered
   /\ lastCall.attached_deposit < lastCall.storage_cost)
    => /\ lastCall.result = "ERR_STORAGE_DEPOSIT"
       /\ Current = pre

\* C4 witness: a create_stash that wrote its index records was refused for a
\* deposit that is not zero but too small.
C4_Witness ==
  /\ lastCall.op = "create_stash"
  /\ lastCall.result = "ERR_STORAGE_DEPOSIT"
  /\ 0 < lastCall.attached_deposit
  /\ lastCall.attached_deposit < lastCall.storage_cost

\* C5: a call of a metered method that returns with a deposit above its
\* cost has its change applied and schedules one transfer, to the caller,
\* of the deposit less the cost; with a deposit equal to the cost it
\* schedules none.
C5_ExactRefund ==
  (lastCall.op \in MeteredOps /\ lastCall.result = "ok")
    => /\ lastCall.attached_deposit > lastCall.storage_cost
            => /\ Applied
               /\ lastCall.promises =
                    <<[receiver |-> lastCall.predecessor,
                       amount |-> lastCall.attached_deposit
                                    - lastCall.storage_cost]>>
       /\ lastCall.attached_deposit = lastCall.storage_cost
            => lastCall.promises = <<>>

\* C5 witness: a create_stash that cost something was overpaid and refunded.
C5_Witness ==
  /\ Returned("create_stash")
  /\ lastCall.storage_cost > 0
  /\ lastCall.attached_deposit > lastCall.storage_cost
  /\ Len(lastCall.promises) = 1

\* C6: a call that ends in an error leaves the stashes and the account
\* index as they were before it and schedules no transfer.
C6_AllOrNothing ==
  Failed => Current = pre /\ lastCall.promises = <<>>

\* C6 witness: a call failed in the stash operation, on a live stash.
C6_Witness ==
  /\ lastCall.result \in {"ERR_OVERFLOW", "ERR_VAULT_NOT_FOUND"}
  /\ lastCall.stash_id \in DOMAIN stashes

\* C7: a remove_liquidity_from_stash of more than the vault holds fails
\* and leaves the balance as it was, so no balance is ever a wrapped
\* difference.
C7_NoUnderflow ==
  (lastCall.op = "remove_liquidity_from_stash" /\ lastCall.entered
   /\ lastCall.stash_id \in DOMAIN pre.stashes
   /\ lastCall.token_id \in DOMAIN pre.stashes[lastCall.stash_id].vaults
   /\ lastCall.amount > BalanceOf(pre, lastCall.stash_id, lastCall.token_id))
    => /\ Failed
       /\ stashes = pre.stashes

\* C8: after add_liquidity_to_stash and, at once, remove_liquidity_from_stash
\* of the same stash, asset and amount, both returning, the vault's balance
\* is what it was before the add (0 if the vault did not exist).
C8_RoundTrip ==
  roundTrip # NoBalance
    => BalanceOf(Current, lastCall.stash_id, lastCall.token_id) = roundTrip

\* C8 witness: a round trip on a vault that held something before it.
C8_Witness ==
  /\ roundTrip # NoBalance
  /\ roundTrip > 0
  /\ Returned("remove_liquidity_from_stash")

\* C9: add_token_to_stash, add_liquidity_to_stash and
\* remove_liquidity_from_stash on a live stash return only for the stash's
\* creator or one of its authorized contributors; for any other caller they
\* fail with ERR_UNAUTHORIZED and leave the stash unchanged.
C9_AuthorizationGate ==
  (lastCall.op \in {"add_token_to_stash", "add_liquidity_to_stash",
                    "remove_liquidity_from_stash"}
   /\ lastCall.entered
   /\ lastCall.stash_id \in DOMAIN pre.stashes
   /\ lastCall.predecessor # creator[lastCall.stash_id]
   /\ lastCall.predecessor
        \notin pre.stashes[lastCall.stash_id].authorized_contributors)
    => /\ lastCall.result = "ERR_UNAUTHORIZED"
       /\ stashes = pre.stashes

\* C10: the four methods that work on one stash, called with an id that is
\* not live, fail, with ERR_STASH_NOT_FOUND whenever the method ran, create
\* no stash, vault or contributor entry and leave the registry unchanged.
C10_StashNotFound ==
  (lastCall.op \in StashOps /\ lastCall.stash_id \notin DOMAIN pre.stashes)
    => /\ Failed
       /\ lastCall.entered => lastCall.result = "ERR_STASH_NOT_FOUND"
       /\ Current = pre
       /\ lastCall.promises = <<>>

\* C10 witness: each of the four methods has been refused for an id that is
\* not live while another stash was.
C10_Witness ==
  /\ lastCall.op \in StashOps
  /\ lastCall.result = "ERR_STASH_NOT_FOUND"
  /\ lastCall.stash_id \notin DOMAIN stashes
  /\ stashes # EmptyMap

\* C11: remove_stash called with an id that is not live (never created, or
\* removed before) fails with ERR_STASH_NOT_FOUND and schedules no refund;
\* it does not return as if it had removed something.
C11_RemoveNotLive ==
  (lastCall.op = "remove_stash" /\ lastCall.stash_id \notin DOMAIN pre.stashes)
    => /\ lastCall.result = "ERR_STASH_NOT_FOUND"
       /\ lastCall.promises = <<>>

\* C12: after a remove_stash that returns, on a stash that was live, the id
\* is not live, there is exactly one live stash fewer, and every other
\* stash that was live is still live with the same name, vaults, balances
\* and contributors.
C12_RemoveOneStash ==
  (Returned("remove_stash") /\ lastCall.stash_id \in DOMAIN pre.stashes)
    => /\ lastCall.stash_id \notin DOMAIN stashes
       /\ Cardinality(DOMAIN stashes) = Cardinality(DOMAIN pre.stashes) - 1
       /\ \A id \in DOMAIN pre.stashes \ {lastCall.stash_id} :
            id \in DOMAIN stashes /\ stashes[id] = pre.stashes[id]

\* C12 witness: a live stash was removed while another stash, holding a
\* balance and a contributor, stayed.
C12_Witness ==
  /\ Returned("remove_stash")
  /\ lastCall.stash_id \in DOMAIN pre.stashes
  /\ \E id \in DOMAIN stashes :
       /\ stashes[id].authorized_contributors # {}
       /\ \E token_id \in DOMAIN stashes[id].vaults :
            stashes[id].vaults[token_id].balance > 0

\* C13: a new() on a contract without state, when it returns, leaves a
\* registry with no stash and no index entry; a new() on a contract whose
\* state exists fails, with ERR_CONTRACT_IS_INITIALIZED whenever the method
\* ran, and leaves the registry as it was.
C13_Init ==
  [][(lastCall'.op = "new" /\ promises' >= promises)
     => IF state_exists
        THEN /\ lastCall'.result \notin {"ok", "none"}
             /\ lastCall'.entered
                  => lastCall'.result = "ERR_CONTRACT_IS_INITIALIZED"
             /\ state_exists'
             /\ stashes' = stashes
             /\ accounts' = accounts
             /\ storage' = storage
        ELSE lastCall'.result = "ok"
               => /\ state_exists'
                  /\ stashes' = EmptyMap
                  /\ accounts' = EmptyMap
                  /\ storage' = EmptyMap]_vars

\* C13 witness: a second new() was refused on a registry that holds a stash
\* and an index entry, and both are still there.
C13_Witness ==
  /\ lastCall.op = "new"
  /\ lastCall.result = "ERR_CONTRACT_IS_INITIALIZED"
  /\ stashes # EmptyMap
  /\ accounts # EmptyMap
  /\ Current = pre

\* C14: a call of a metered method that returns without having added bytes
\* to the storage has cost 0 and refunds the whole deposit to the caller (no
\* transfer when there is no deposit); a call fails with ERR_STORAGE_DEPOSIT
\* only when its writes added bytes; and no refund is larger than the
\* deposit of its call.
C14_ZeroFlooredCost ==
  /\ (lastCall.op \in MeteredOps /\ lastCall.result = "ok"
      /\ storage_usage(accounts, storage)
           <= storage_usage(pre.accounts, pre.storage))
       => /\ lastCall.storage_cost = 0
          /\ lastCall.promises =
               IF lastCall.attached_deposit > 0
               THEN <<[receiver |-> lastCall.predecessor,
                       amount |-> lastCall.attached_deposit]>>
               ELSE <<>>
  /\ lastCall.result = "ERR_STORAGE_DEPOSIT"
       => /\ lastCall.op = "create_stash"
          /\ LET out == create_stash(pre, lastCall.name, lastCall.predecessor,
                                     lastCall.attached_deposit)
             IN storage_usage(out.accounts, out.storage)
                  > storage_usage(pre.accounts, pre.storage)
  /\ \A i \in DOMAIN lastCall.promises :
       lastCall.promises[i].amount <= lastCall.attached_deposit

\* C14 witness: a remove_stash of a live stash, called with a deposit, had
\* cost 0 and its whole deposit is on the way back to the caller.
C14_Witness ==
  /\ Returned("remove_stash")
  /\ lastCall.stash_id \in DOMAIN pre.stashes
  /\ lastCall.attached_deposit > 0
  /\ lastCall.storage_cost = 0
  /\ lastCall.promises = <<[receiver |-> lastCall.predecessor,
                            amount |-> lastCall.attached_deposit]>>

\* C15: a transfer is scheduled only by a call that returned, whose change
\* is then in the registry, and never by a call that failed; a transfer
\* executes in a step of its own, after the call that scheduled it, and
\* that step, however the transfer ends, leaves the registry and the
\* record of the call as they were.
C15_RefundOrdering ==
  [][/\ promises' > promises
          => /\ lastCall'.result = "ok"
             /\ lastCall'.promises # <<>>
             /\ promises' = promises + Len(lastCall'.promises)
             /\ Applied'
     /\ (lastCall'.result \notin {"ok", "none"} /\ promises' >= promises)
          => /\ promises' = promises
             /\ lastCall'.promises = <<>>
     /\ promises' < promises
          => /\ promises > 0
             /\ UNCHANGED <<state_exists, stashes, accounts, storage,
                            pre, lastCall>>]_vars

\* C15 witness: the refund of a create_stash has executed, in a step after
\* the call, and the stash the call made is in the registry.
C15_Witness ==
  /\ Returned("create_stash")
  /\ lastCall.promises # <<>>
  /\ promises = 0
  /\ Applied

\* C16: add_token_to_stash on a live stash returns; when the stash has no
\* vault for the asset it gains one with balance 0 and nothing else
\* changes; when it has one the registry is left as it was, the balance
\* included, so a second call changes nothing.
C16_AddTokenIdempotent ==
  (lastCall.op = "add_token_to_stash" /\ lastCall.entered
   /\ lastCall.stash_id \in DOMAIN pre.stashes)
    => LET old == pre.stashes[lastCall.stash_id]
       IN /\ lastCall.result = "ok"
          /\ IF lastCall.token_id \in DOMAIN old.vaults
             THEN Current = pre
             ELSE /\ stashes = map_insert(pre.stashes, lastCall.stash_id,
                                 [old EXCEPT !.vaults =
                                    map_insert(@, lastCall.token_id,
                                               [balance |-> 0])])
                  /\ accounts = pre.accounts
                  /\ storage = pre.storage

\* C16 witness: add_token_to_stash returned for an asset whose vault held a
\* balance.
C16_Witness ==
  /\ Returned("add_token_to_stash")
  /\ lastCall.stash_id \in DOMAIN pre.stashes
  /\ lastCall.token_id \in DOMAIN pre.stashes[lastCall.stash_id].vaults
  /\ BalanceOf(pre, lastCall.stash_id, lastCall.token_id) > 0

\* C17: add_liquidity_to_stash on a live stash returns with the vault
\* present and its balance the old balance (0 without a vault) plus the
\* amount, unless the sum exceeds u128_MAX: then the call fails with
\* ERR_OVERFLOW and the registry is as it was, the balance not wrapped.
C17_AddLiquidityChecked ==
  (lastCall.op = "add_liquidity_to_stash" /\ lastCall.entered
   /\ lastCall.stash_id \in DOMAIN pre.stashes)
    => LET old == BalanceOf(pre, lastCall.stash_id, lastCall.token_id)
       IN IF old + lastCall.amount > u128_MAX
          THEN /\ lastCall.result = "ERR_OVERFLOW"
               /\ Current = pre
          ELSE /\ lastCall.result = "ok"
               /\ lastCall.token_id
                    \in DOMAIN stashes[lastCall.stash_id].vaults
               /\ stashes[lastCall.stash_id].vaults[lastCall.token_id].balance
                    = old + lastCall.amount

\* C17 witness: an add_liquidity_to_stash to a vault that held a balance
\* was refused because the sum exceeds u128_MAX.
C17_Witness ==
  /\ lastCall.op = "add_liquidity_to_stash"
  /\ lastCall.result = "ERR_OVERFLOW"
  /\ BalanceOf(Current, lastCall.stash_id, lastCall.token_id) > 0
  /\ BalanceOf(Current, lastCall.stash_id, lastCall.token_id)
       + lastCall.amount > u128_MAX

\* C18: a stash that is live before and after a step has, after it, a vault
\* for every asset it had a vault for before: no call removes a vault from
\* a live stash.
C18_VaultsOnlyGrow ==
  [][\A id \in DOMAIN stashes \cap DOMAIN stashes' :
       DOMAIN stashes[id].vaults \subseteq DOMAIN stashes'[id].vaults]_vars

\* C19: a create_stash that returns adds the id it allocated to the
\* caller's index and leaves what get_stashes_for_account returns for every
\* other account as it was; an account with no index entry, one that never
\* created a stash, gets the empty vector.
C19_IndexIsolation ==
  /\ Returned("create_stash")
       => /\ \A account_id \in Accounts \ {lastCall.predecessor} :
               get_stashes_for_account(accounts, storage, account_id)
                 = get_stashes_for_account(pre.accounts, pre.storage, account_id)
          /\ IndexOf(lastCall.predecessor)
               = Range(get_stashes_for_account(pre.accounts, pre.storage,
                                               lastCall.predecessor))
                   \cup {lastCall.ret}
  /\ \A account_id \in Accounts \ DOMAIN accounts :
       get_stashes_for_account(accounts, storage, account_id) = <<>>
====
